---- MODULE Spec2Model ----
(***************************************************************************)
(* State-machine model of src/train/train.py: the training launcher of     *)
(* the repository.  Every process of a run executes main(); the processes  *)
(* share the file system and the wall clock.                               *)
(*                                                                         *)
(* Optional Python values are modelled as sequences of length <= 1:        *)
(* <<>> is None / "not yet bound", <<v>> is the value v.                   *)
(* A Python dict is a function whose DOMAIN is the set of keys present.    *)
(***************************************************************************)
EXTENDS Integers, Sequences, FiniteSets, TLC

\* ------------------------------------------------------------------ bounds
MaxProcs == 2        \* processes launched in a multi-process run
MaxClock == 1        \* last second the wall clock reaches
MaxRows == 3         \* most rows of a CSV table on disk
MaxBatch == 2        \* largest train.batch_size

VARIABLES
    procs,       \* the processes of this run
    environ,     \* environ[p]: LOCAL_RANK and XFL_CONFIG of process p
    fault,       \* fault[p]: the step whose external call raises, or "none"
    configDoc,   \* the YAML document at the path named by XFL_CONFIG
    csvFiles,    \* CSV tables on disk: path -> number of rows
    clock,       \* wall clock, in seconds
    dirs,        \* directories on disk (output directories only)
    files,       \* files on disk below the output directories
    st           \* st[p]: the local variables and position of main() in p

vars == <<procs, environ, fault, configDoc, csvFiles, clock, dirs, files, st>>

\* ------------------------------------------------------------ dict helpers
None == <<>>
Some(v) == <<v>>

\* dict.get(k, d)
Get(m, k, d) == IF k \in DOMAIN m THEN m[k] ELSE d

Merge(f, g) == [k \in (DOMAIN f) \cup (DOMAIN g) |->
                   IF k \in DOMAIN g THEN g[k] ELSE f[k]]

\* -------------------------------------------------------------- get_rank()
Digits == {"0", "1", "2"}

DigitVal(c) == CASE c = "0" -> 0 [] c = "1" -> 1 [] c = "2" -> 2

RECURSIVE DecimalValue(_)
DecimalValue(s) ==
    IF s = <<>> THEN 0
    ELSE 10 * DecimalValue(SubSeq(s, 1, Len(s) - 1)) + DigitVal(s[Len(s)])

AllDigits(s) == Len(s) >= 1 /\ \A i \in 1..Len(s) : s[i] \in Digits

\* int(x) succeeds: x is a string of one or more digits, optionally signed
IntParses(x) ==
    /\ x # None
    /\ LET s == x[1] IN
         \/ AllDigits(s)
         \/ Len(s) >= 2 /\ s[1] = "-" /\ AllDigits(Tail(s))

IntValue(x) ==
    LET s == x[1] IN
    IF s[1] = "-" THEN 0 - DecimalValue(Tail(s)) ELSE DecimalValue(s)

\* a faulty variant: the leading digits are taken as the rank, as C's atoi would
get_rank_Atoi(env) ==
    IF env.LOCAL_RANK = None \/ env.LOCAL_RANK = Some(<<>>) THEN 0
    ELSE IF IntParses(env.LOCAL_RANK) THEN IntValue(env.LOCAL_RANK)
    ELSE IF env.LOCAL_RANK[1][1] \in Digits THEN DigitVal(env.LOCAL_RANK[1][1])
    ELSE 0

\* get_rank: int(os.environ.get("LOCAL_RANK")), any exception gives 0
get_rank(env) == IF IntParses(env.LOCAL_RANK) THEN IntValue(env.LOCAL_RANK) ELSE 0

\* ------------------------------------------------------- YAML load / dump
\* keys in the order yaml.dump emits them (sorted)
KeyOrder == <<"accumulate_grad_batches", "batch_size", "condition_type",
              "csv_file", "dataloader_workers", "dataset", "dtype",
              "flux_path", "gradient_clip_val", "image_dir", "lora_config",
              "max_epochs", "max_steps", "model", "optimizer", "project", "save_path",
              "train", "type", "urls", "wandb">>

\* keys whose value is itself a mapping
MapKeys == {"train", "dataset", "wandb", "model"}

\* yaml.dump: a mapping becomes the list of its <<key, value>> entries in
\* sorted key order, nested mappings dumped the same way
RECURSIVE yaml_dump(_)
yaml_dump(m) ==
    LET ks == SelectSeq(KeyOrder, LAMBDA k : k \in DOMAIN m) IN
    [i \in 1..Len(ks) |->
        <<ks[i], IF ks[i] \in MapKeys THEN yaml_dump(m[ks[i]]) ELSE m[ks[i]]>>]

\* yaml.safe_load: the list of entries becomes a mapping
RECURSIVE yaml_safe_load(_)
yaml_safe_load(doc) ==
    [k \in {doc[i][1] : i \in 1..Len(doc)} |->
        LET v == doc[CHOOSE i \in 1..Len(doc) : doc[i][1] = k][2] IN
        IF k \in MapKeys THEN yaml_safe_load(v) ELSE v]

\* ------------------------------------------------------------ environment
\* values of LOCAL_RANK: unset, empty, non-numeric, and integers
RankEnvs == {None, Some(<<>>), Some(<<"1", "a">>),
             Some(<<"0">>), Some(<<"1">>), Some(<<"-", "1">>)}

\* path of the config document when XFL_CONFIG is set
ConfigPath == "config.yaml.in"

\* ----------------------------------------------------------- config files
DatasetTypes == {"scene", "img", "cartoon", "unsupported"}
CsvPaths == {"csv_path", "data/train.csv"}

\* a value for every optional key of config["train"]; the clip value is the
\* fraction <<numerator, denominator>>
OptionalValue ==
    [wandb |-> [project |-> "proj"], max_steps |-> 1, max_epochs |-> 2,
     gradient_clip_val |-> <<1, 1>>, save_path |-> "runs"]

MkConfig(type, csv, bs, opt) ==
    [flux_path |-> "flux", dtype |-> "bfloat16",
     train |-> Merge(
        [dataset |-> [type |-> type, csv_file |-> csv, image_dir |-> "data/images",
                      urls |-> "shards"],
         condition_type |-> "subject", batch_size |-> bs, dataloader_workers |-> 0,
         accumulate_grad_batches |-> bs + 2, lora_config |-> "lora", optimizer |-> "opt"],
        [k \in opt |-> OptionalValue[k]])]

\* -------------------------------------------------------- local state of main
Steps == <<"get_rank", "set_device", "get_config", "run_name", "init_wandb",
           "dataset", "loader", "model", "callbacks", "trainer", "setattr",
           "makedirs", "write_config", "fit">>
StepSet == {Steps[i] : i \in 1..Len(Steps)}

\* steps that touch state shared between the processes (clock, file system)
SharedSteps == {"run_name", "makedirs", "write_config", "fit"}
LocalSteps == StepSet \ SharedSteps

\* steps whose call into a library or the OS can raise for outside reasons
FaultSteps == (StepSet \ {"get_rank", "run_name", "setattr"}) \cup {"yaml_dump"}

InitLocal ==
    [pc |-> "get_rank", rank |-> 0, is_main_process |-> FALSE, device |-> None,
     config |-> None, run_name |-> None, wandb |-> None, opened |-> {},
     dataset |-> None, train_loader |-> None, trainable_model |-> None,
     training_callbacks |-> None, callbacks_built |-> 0, trainer |-> None,
     made |-> 0, written |-> 0, fit_calls |-> 0, error |-> "none", trace |-> <<>>]

\* an uncaught exception: main() unwinds, the process exits
Raise(s, err) == [s EXCEPT !.pc = "aborted", !.error = err,
                           !.trace = Append(@, "abort")]

\* a step finished: record it and move to the next statement
Done(s, step, next) == [s EXCEPT !.pc = next, !.trace = Append(@, step)]

\* skip to another statement without having performed a step
Goto(s, next) == [s EXCEPT !.pc = next]

\* training_config = config["train"]: an alias of part of config (line 98)
training_config(s) == s.config[1]["train"]

\* ------------------------------------------------ steps local to a process
\* a faulty variant: every process with a non-negative rank counts as the main one
L_get_rank_AllMain(s, env) ==
    Done([s EXCEPT !.is_main_process = (get_rank(env) >= 0), !.rank = get_rank(env)],
         "get_rank", "set_device")

\* is_main_process, rank = get_rank() == 0, get_rank()
L_get_rank(s, env) ==
    Done([s EXCEPT !.is_main_process = (get_rank(env) = 0), !.rank = get_rank(env)],
         "get_rank", "set_device")

\* torch.cuda.set_device(rank)
L_set_device(s, flt) ==
    IF flt = "set_device" THEN Raise(s, "RuntimeError")
    ELSE Done([s EXCEPT !.device = Some(s.rank)], "set_device", "get_config")

\* a faulty variant: no assertion; an unset XFL_CONFIG falls back to a default document
L_get_config_NoAssert(s, env, doc, flt) ==
    IF flt = "get_config" THEN Raise(s, "OSError")
    ELSE Done([s EXCEPT !.config = Some(yaml_safe_load(doc))], "get_config", "run_name")

\* config = get_config()
L_get_config(s, env, doc, flt) ==
    IF env.XFL_CONFIG = None THEN Raise(s, "AssertionError")
    ELSE IF flt = "get_config" THEN Raise(s, "OSError")
    ELSE Done([s EXCEPT !.config = Some(yaml_safe_load(doc))], "get_config", "run_name")

\* wandb_config = training_config.get("wandb", None); init_wandb on rank 0
L_init_wandb(s, flt) ==
    LET tc == training_config(s)
        wandb_config == IF "wandb" \in DOMAIN tc THEN Some(tc["wandb"]) ELSE None
    IN  IF wandb_config # None /\ s.is_main_process
        THEN IF flt = "init_wandb" THEN Raise(s, "WandbError")
             ELSE Done([s EXCEPT !.wandb = Some([project |-> wandb_config[1]["project"],
                                                  name |-> s.run_name[1]])],
                       "init_wandb", "dataset")
        ELSE Goto(s, "dataset")

\* rows of the remote sources (text-to-image-2M shards, oye-cartoon)
RemoteRows(source) == IF source = "saquiboye/oye-cartoon" THEN MaxRows ELSE MaxRows - 1

\* len() of a dataset adapter (SceneDataset, ImageConditionDataset,
\* CartoonDataset): the number of records of the raw source it wraps
AdapterLen(raw_len) == raw_len

\* LocalSubjectsDataset(csv_file, image_dir, transform): pd.read_csv(csv_file)
LocalSubjectsDataset(csv_file, image_dir, csv) ==
    [csv_file |-> csv_file, image_dir |-> image_dir, len |-> csv[csv_file]]

\* a faulty variant: no final else; every type is served by the cartoon branch
L_dataset_Fallthrough(s, csv, flt) ==
    IF flt = "dataset"
    THEN Raise([s EXCEPT !.opened = {"saquiboye/oye-cartoon"}], "OSError")
    ELSE Done([s EXCEPT !.opened = {"saquiboye/oye-cartoon"},
                        !.dataset = Some([kind |-> "CartoonDataset",
                                          source |-> "saquiboye/oye-cartoon",
                                          image_dir |-> "",
                                          len |-> RemoteRows("saquiboye/oye-cartoon")])],
              "dataset", "loader")

\* the dataset dispatch on training_config["dataset"]["type"]
L_dataset(s, csv, flt) ==
    LET ds == training_config(s)["dataset"] IN
    IF ds["type"] = "scene" THEN
        IF "csv_path" \notin DOMAIN csv THEN Raise(s, "FileNotFoundError")
        ELSE IF flt = "dataset" THEN Raise([s EXCEPT !.opened = {"csv_path"}], "OSError")
        ELSE LET data_valid == LocalSubjectsDataset("csv_path", "images_path", csv) IN
             Done([s EXCEPT !.opened = {"csv_path"},
                            !.dataset = Some([kind |-> "SceneDataset",
                                              source |-> data_valid.csv_file,
                                              image_dir |-> data_valid.image_dir,
                                              len |-> AdapterLen(data_valid.len)])],
                  "dataset", "loader")
    ELSE IF ds["type"] = "img" THEN
        IF flt = "dataset" THEN Raise([s EXCEPT !.opened = {ds["urls"]}], "OSError")
        ELSE Done([s EXCEPT !.opened = {ds["urls"]},
                            !.dataset = Some([kind |-> "ImageConditionDataset",
                                              source |-> ds["urls"], image_dir |-> "",
                                              len |-> AdapterLen(RemoteRows(ds["urls"]))])],
                  "dataset", "loader")
    ELSE IF ds["type"] = "cartoon" THEN
        IF flt = "dataset"
        THEN Raise([s EXCEPT !.opened = {"saquiboye/oye-cartoon"}], "OSError")
        ELSE Done([s EXCEPT !.opened = {"saquiboye/oye-cartoon"},
                            !.dataset = Some([kind |-> "CartoonDataset",
                                              source |-> "saquiboye/oye-cartoon",
                                              image_dir |-> "",
                                              len |-> AdapterLen(RemoteRows("saquiboye/oye-cartoon"))])],
                  "dataset", "loader")
    ELSE Raise(s, "NotImplementedError")

\* len(DataLoader(dataset, batch_size=b)) with drop_last left False
CeilDiv(n, b) == (n + b - 1) \div b

\* train_loader = DataLoader(dataset, batch_size, shuffle=True, num_workers)
L_loader(s, flt) ==
    LET tc == training_config(s) IN
    IF flt = "loader" THEN Raise(s, "ValueError")
    ELSE Done([s EXCEPT !.train_loader =
                  Some([batch_size |-> tc["batch_size"], shuffle |-> TRUE,
                        num_workers |-> tc["dataloader_workers"],
                        batches |-> CeilDiv(s.dataset[1].len, tc["batch_size"])])],
              "loader", "model")

\* a faulty variant: config.setdefault("model", {}) in place of config.get("model", {})
L_model_SetDefault(s, flt) ==
    LET tc == training_config(s) IN
    IF flt = "model" THEN Raise(s, "RuntimeError")
    ELSE Done([s EXCEPT !.config = Some(Merge([model |-> <<>>], s.config[1])),
                        !.trainable_model =
                  Some([flux_pipe_id |-> s.config[1]["flux_path"],
                        lora_config |-> tc["lora_config"],
                        dtype |-> s.config[1]["dtype"],
                        optimizer_config |-> tc["optimizer"],
                        model_config |-> Get(s.config[1], "model", <<>>),
                        gradient_checkpointing |-> Get(tc, "gradient_checkpointing", FALSE)])],
              "model", "callbacks")

\* trainable_model = OminiModel(...)
L_model(s, flt) ==
    LET tc == training_config(s) IN
    IF flt = "model" THEN Raise(s, "RuntimeError")
    ELSE Done([s EXCEPT !.trainable_model =
                  Some([flux_pipe_id |-> s.config[1]["flux_path"],
                        lora_config |-> tc["lora_config"],
                        dtype |-> s.config[1]["dtype"],
                        optimizer_config |-> tc["optimizer"],
                        model_config |-> Get(s.config[1], "model", <<>>),
                        gradient_checkpointing |-> Get(tc, "gradient_checkpointing", FALSE)])],
              "model", "callbacks")

\* a faulty variant: the callback is built on every rank
L_callbacks_Always(s, flt) ==
    IF flt = "callbacks" THEN Raise(s, "RuntimeError")
    ELSE Done([s EXCEPT !.callbacks_built = @ + 1,
                        !.training_callbacks =
                            Some(<<[run_name |-> s.run_name[1],
                                    training_config |-> training_config(s)]>>)],
              "callbacks", "trainer")

\* training_callbacks = [TrainingCallback(run_name, training_config)] on rank 0
L_callbacks(s, flt) ==
    IF s.is_main_process
    THEN IF flt = "callbacks" THEN Raise(s, "RuntimeError")
         ELSE Done([s EXCEPT !.callbacks_built = @ + 1,
                             !.training_callbacks =
                                 Some(<<[run_name |-> s.run_name[1],
                                         training_config |-> training_config(s)]>>)],
                   "callbacks", "trainer")
    ELSE Goto([s EXCEPT !.training_callbacks = Some(<<>>)], "trainer")

\* the default gradient_clip_val, 0.5, as a fraction
DefaultClip == <<1, 2>>

\* a faulty variant: max_epochs is read from the max_steps key
L_trainer_WrongKey(s, flt) ==
    LET tc == training_config(s) IN
    IF flt = "trainer" THEN Raise(s, "RuntimeError")
    ELSE Done([s EXCEPT !.trainer =
                  Some([accumulate_grad_batches |-> tc["accumulate_grad_batches"],
                        callbacks |-> s.training_callbacks[1],
                        enable_checkpointing |-> FALSE,
                        enable_progress_bar |-> FALSE,
                        logger |-> FALSE,
                        max_steps |-> Get(tc, "max_steps", -1),
                        max_epochs |-> Get(tc, "max_steps", -1),
                        gradient_clip_val |-> Get(tc, "gradient_clip_val", <<1, 2>>),
                        training_config |-> None])],
              "trainer", "setattr")

\* trainer = L.Trainer(...)
L_trainer(s, flt) ==
    LET tc == training_config(s) IN
    IF flt = "trainer" THEN Raise(s, "RuntimeError")
    ELSE Done([s EXCEPT !.trainer =
                  Some([accumulate_grad_batches |-> tc["accumulate_grad_batches"],
                        callbacks |-> s.training_callbacks[1],
                        enable_checkpointing |-> FALSE,
                        enable_progress_bar |-> FALSE,
                        logger |-> FALSE,
                        max_steps |-> Get(tc, "max_steps", -1),
                        max_epochs |-> Get(tc, "max_epochs", -1),
                        gradient_clip_val |-> Get(tc, "gradient_clip_val", DefaultClip),
                        training_config |-> None])],
              "trainer", "setattr")

\* a faulty variant: the save of the config is skipped
L_setattr_SkipSave(s) ==
    Done([s EXCEPT !.trainer = Some([s.trainer[1] EXCEPT
                                       !.training_config = Some(training_config(s))])],
         "setattr", "fit")

\* setattr(trainer, "training_config", training_config)
L_setattr(s) ==
    Done([s EXCEPT !.trainer = Some([s.trainer[1] EXCEPT
                                       !.training_config = Some(training_config(s))])],
         "setattr", "makedirs")

\* one local statement of main(), chosen by the position of the process
LocalStep(s, env, doc, csv, flt) ==
    CASE s.pc = "get_rank" -> L_get_rank(s, env)
      [] s.pc = "set_device" -> L_set_device(s, flt)
      [] s.pc = "get_config" -> L_get_config(s, env, doc, flt)
      [] s.pc = "init_wandb" -> L_init_wandb(s, flt)
      [] s.pc = "dataset" -> L_dataset(s, csv, flt)
      [] s.pc = "loader" -> L_loader(s, flt)
      [] s.pc = "model" -> L_model(s, flt)
      [] s.pc = "callbacks" -> L_callbacks(s, flt)
      [] s.pc = "trainer" -> L_trainer(s, flt)
      [] s.pc = "setattr" -> L_setattr(s)

\* the local statements of main() up to the next one that touches shared state
RECURSIVE RunLocal(_, _, _, _, _)
RunLocal(s, env, doc, csv, flt) ==
    IF s.pc \in LocalSteps
    THEN RunLocal(LocalStep(s, env, doc, csv, flt), env, doc, csv, flt)
    ELSE s

\* ------------------------------------------------------------ file system
\* f"{save_path}/{run_name}" and f"{save_path}/{run_name}/config.yaml"
RunDir(save_path, run_name) == <<save_path, run_name>>
ConfigFile(save_path, run_name) == <<save_path, run_name, "config.yaml">>

\* save_path = training_config.get("save_path", "./output")
save_path(s) == Get(training_config(s), "save_path", "./output")

\* a faulty variant: os.makedirs(path, exist_ok=True)
makedirs_exist_ok(path, d) == TRUE

\* os.makedirs(path): fails when the leaf directory exists (exist_ok is False)
makedirs_ok(path, d) == path \notin d

\* open(path, "w") followed by a write of content by process p
WriteFile(fs, path, content, p) ==
    [q \in (DOMAIN fs) \cup {path} |->
        IF q = path THEN [content |-> content, writer |-> p] ELSE fs[q]]

NoFiles == [q \in {} |-> 0]

\* ---------------------------------------------------------------- actions
Local(p, step) ==
    /\ st[p].pc = step
    /\ st' = [st EXCEPT ![p] = LocalStep(st[p], environ[p], configDoc, csvFiles, fault[p])]
    /\ UNCHANGED <<procs, environ, fault, configDoc, csvFiles, clock, dirs, files>>

GetRank(p) == Local(p, "get_rank")
SetDevice(p) == Local(p, "set_device")
GetConfig(p) == Local(p, "get_config")
InitWandb(p) == Local(p, "init_wandb")
BuildDataset(p) == Local(p, "dataset")
BuildLoader(p) == Local(p, "loader")
BuildModel(p) == Local(p, "model")
BuildCallbacks(p) == Local(p, "callbacks")
BuildTrainer(p) == Local(p, "trainer")
SetAttr(p) == Local(p, "setattr")

\* run_name = time.strftime("%Y%m%d-%H%M%S"): the clock at one-second resolution
RunName(p) ==
    /\ st[p].pc = "run_name"
    /\ st' = [st EXCEPT ![p] = Done([st[p] EXCEPT !.run_name = Some(clock)],
                                    "run_name", "init_wandb")]
    /\ UNCHANGED <<procs, environ, fault, configDoc, csvFiles, clock, dirs, files>>

\* if is_main_process: os.makedirs(f"{save_path}/{run_name}")
Makedirs(p) ==
    LET s == st[p]
        path == RunDir(save_path(s), s.run_name[1])
    IN  /\ s.pc = "makedirs"
        /\ IF ~s.is_main_process
           THEN /\ st' = [st EXCEPT ![p] = Goto(s, "fit")]
                /\ UNCHANGED dirs
           ELSE IF ~makedirs_ok(path, dirs)
           THEN /\ st' = [st EXCEPT ![p] = Raise(s, "FileExistsError")]
                /\ UNCHANGED dirs
           ELSE IF fault[p] = "makedirs"
           THEN /\ st' = [st EXCEPT ![p] = Raise(s, "OSError")]
                /\ UNCHANGED dirs
           ELSE /\ st' = [st EXCEPT ![p] = Done([s EXCEPT !.made = @ + 1],
                                                "makedirs", "write_config")]
                /\ dirs' = dirs \cup {path}
        /\ UNCHANGED <<procs, environ, fault, configDoc, csvFiles, clock, files>>

\* with open(f"{save_path}/{run_name}/config.yaml", "w") as f: yaml.dump(config, f)
WriteConfig(p) ==
    LET s == st[p]
        path == ConfigFile(save_path(s), s.run_name[1])
    IN  /\ s.pc = "write_config"
        /\ IF fault[p] = "write_config"
           THEN /\ st' = [st EXCEPT ![p] = Raise(s, "OSError")]
                /\ UNCHANGED files
           ELSE IF fault[p] = "yaml_dump"
           THEN /\ st' = [st EXCEPT ![p] = Raise(s, "YAMLError")]
                /\ files' = WriteFile(files, path, <<>>, p)
           ELSE /\ st' = [st EXCEPT ![p] = Done([s EXCEPT !.written = @ + 1],
                                                "write_config", "fit")]
                /\ files' = WriteFile(files, path, yaml_dump(s.config[1]), p)
        /\ UNCHANGED <<procs, environ, fault, configDoc, csvFiles, clock, dirs>>

\* trainer.fit(trainable_model, train_loader)
Fit(p) ==
    LET s == [st[p] EXCEPT !.fit_calls = @ + 1] IN
    /\ st[p].pc = "fit"
    /\ st' = [st EXCEPT ![p] = IF fault[p] = "fit" THEN Raise(s, "RuntimeError")
                               ELSE Done(s, "fit", "done")]
    /\ UNCHANGED <<procs, environ, fault, configDoc, csvFiles, clock, dirs, files>>

\* a second passes
Tick ==
    /\ clock < MaxClock
    /\ clock' = clock + 1
    /\ UNCHANGED <<procs, environ, fault, configDoc, csvFiles, dirs, files, st>>

\* all local statements up to the next shared one, as one step of a process
RunLocalSteps(p) ==
    /\ st[p].pc \in LocalSteps
    /\ st' = [st EXCEPT ![p] = RunLocal(st[p], environ[p], configDoc, csvFiles, fault[p])]
    /\ UNCHANGED <<procs, environ, fault, configDoc, csvFiles, clock, dirs, files>>

\* ---------------------------------------------------------- initial states
\* an output directory left by an earlier run that started in second 0
EarlierDir(sp) == RunDir(sp, 0)
EarlierFiles(sp) == WriteFile(NoFiles, ConfigFile(sp, 0), <<<<"dtype", "float32">>>>, 0)

InitDisk(sp) ==
    \/ dirs = {} /\ files = NoFiles
    \/ dirs = {EarlierDir(sp)} /\ files = EarlierFiles(sp)

Envs(ranks, xfl) == [LOCAL_RANK : ranks, XFL_CONFIG : xfl]

\* one process; any rank, XFL_CONFIG set or not, any dataset type, any fault
Init ==
    /\ procs = {1}
    /\ environ \in [procs -> Envs(RankEnvs, {None, Some(ConfigPath)})]
    /\ fault \in [procs -> FaultSteps \cup {"none"}]
    /\ \E t \in DatasetTypes, opt \in SUBSET {"wandb"} :
          configDoc = yaml_dump(MkConfig(t, "data/train.csv", MaxBatch, opt))
    /\ csvFiles = ("csv_path" :> MaxRows) @@ ("data/train.csv" :> MaxRows)
    /\ clock = 0
    /\ InitDisk("./output")
    /\ st = [p \in procs |-> InitLocal]

\* one process, no faults; the config and the tables on disk vary
InitConfig ==
    /\ procs = {1}
    /\ environ \in [procs -> Envs({None, Some(<<"1">>)}, {Some(ConfigPath)})]
    /\ fault = [p \in procs |-> "none"]
    /\ \E t \in {"scene", "img"}, csv \in CsvPaths, bs \in 1..MaxBatch,
          opt \in SUBSET {"max_steps", "max_epochs", "gradient_clip_val"} :
          configDoc = yaml_dump(MkConfig(t, csv, bs, opt))
    /\ \E have \in SUBSET {"csv_path"} :
          csvFiles \in [have \cup {"data/train.csv"} -> 1..MaxRows]
    /\ clock = 0
    /\ dirs = {} /\ files = NoFiles
    /\ st = [p \in procs |-> InitLocal]

\* several processes started together on one config and an empty output
\* directory, no faults; LOCAL_RANK is anything
InitMulti ==
    /\ procs = 1..MaxProcs
    /\ environ \in [procs -> Envs(RankEnvs, {Some(ConfigPath)})]
    /\ fault = [p \in procs |-> "none"]
    /\ configDoc = yaml_dump(MkConfig("img", "data/train.csv", MaxBatch,
                                      {"wandb", "save_path"}))
    /\ csvFiles = ("data/train.csv" :> MaxRows)
    /\ clock = 0
    /\ dirs = {} /\ files = NoFiles
    /\ st = [p \in procs |-> InitLocal]

\* several processes started together, LOCAL_RANK unset or set by a
\* launcher; an earlier run may have left its directory
InitRace ==
    /\ procs = 1..MaxProcs
    /\ environ \in [procs -> Envs({None, Some(<<"0">>), Some(<<"1">>)},
                                  {Some(ConfigPath)})]
    /\ fault = [p \in procs |-> "none"]
    /\ configDoc = yaml_dump(MkConfig("img", "data/train.csv", MaxBatch,
                                      {"wandb", "save_path"}))
    /\ csvFiles = ("data/train.csv" :> MaxRows)
    /\ clock = 0
    /\ InitDisk("runs")
    /\ st = [p \in procs |-> InitLocal]

\* ------------------------------------------------------------ specifications
Next ==
    \/ \E p \in procs : GetRank(p)
    \/ \E p \in procs : SetDevice(p)
    \/ \E p \in procs : GetConfig(p)
    \/ \E p \in procs : RunName(p)
    \/ \E p \in procs : InitWandb(p)
    \/ \E p \in procs : BuildDataset(p)
    \/ \E p \in procs : BuildLoader(p)
    \/ \E p \in procs : BuildModel(p)
    \/ \E p \in procs : BuildCallbacks(p)
    \/ \E p \in procs : BuildTrainer(p)
    \/ \E p \in procs : SetAttr(p)
    \/ \E p \in procs : Makedirs(p)
    \/ \E p \in procs : WriteConfig(p)
    \/ \E p \in procs : Fit(p)
    \/ Tick

NextMulti ==
    \/ \E p \in procs : RunLocalSteps(p)
    \/ \E p \in procs : RunName(p)
    \/ \E p \in procs : Makedirs(p)
    \/ \E p \in procs : WriteConfig(p)
    \/ \E p \in procs : Fit(p)
    \/ Tick

Spec == Init /\ [][Next]_vars
SpecConfig == InitConfig /\ [][Next]_vars
SpecMulti == InitMulti /\ [][NextMulti]_vars
SpecRace == InitRace /\ [][NextMulti]_vars

\* =================================================================== claims
NothingBuilt(s) ==
    /\ s.opened = {} /\ s.dataset = None /\ s.train_loader = None
    /\ s.trainable_model = None /\ s.training_callbacks = None
    /\ s.callbacks_built = 0 /\ s.trainer = None
    /\ s.made = 0 /\ s.written = 0 /\ s.fit_calls = 0

NoFileOf(p) == \A q \in DOMAIN files : files[q].writer # p

\* C1: with XFL_CONFIG unset, main() fails on the assertion of get_config
\* before any dataset, loader, model, callback or trainer exists, before the
\* output directory is made, and trainer.fit is never called, on every rank.
C1_UnsetConfigFailsFirst ==
    \A p \in procs :
        environ[p].XFL_CONFIG = None =>
            /\ st[p].pc \in {"get_rank", "set_device", "get_config", "aborted"}
            /\ st[p].config = None /\ st[p].wandb = None
            /\ NothingBuilt(st[p]) /\ NoFileOf(p)
            /\ (st[p].pc = "aborted" /\ st[p].device # None
                    => st[p].error = "AssertionError")

C1_Witness ==
    \E p \in procs :
        /\ environ[p].XFL_CONFIG = None /\ st[p].rank # 0
        /\ st[p].pc = "aborted" /\ st[p].error = "AssertionError"

UnsupportedType(s) ==
    /\ s.config # None
    /\ training_config(s)["dataset"]["type"] \notin {"scene", "img", "cartoon"}

\* C2 as stated: with an unsupported dataset type the run fails with
\* NotImplementedError and nothing has been touched: no dataset source, no
\* metrics backend, no output directory or config.yaml, no loader, model or
\* trainer.
C2_Original ==
    \A p \in procs :
        UnsupportedType(st[p]) =>
            /\ NothingBuilt(st[p]) /\ NoFileOf(p)
            /\ st[p].wandb = None
            /\ (st[p].pc = "aborted" => st[p].error = "NotImplementedError")

\* C2 amended: with an unsupported dataset type the run stops at the dataset
\* dispatch with NotImplementedError; no dataset source, output directory,
\* config.yaml, loader, model or trainer exists; the metrics backend has been
\* initialised before the dispatch exactly when the process is rank 0 and
\* train.wandb is present (unless that initialisation itself failed).
C2_Amended ==
    \A p \in procs :
        UnsupportedType(st[p]) =>
            /\ st[p].pc \in {"run_name", "init_wandb", "dataset", "aborted"}
            /\ NothingBuilt(st[p]) /\ NoFileOf(p)
            /\ (st[p].wandb # None =>
                    st[p].rank = 0 /\ "wandb" \in DOMAIN training_config(st[p]))
            /\ (st[p].pc = "aborted" =>
                    \/ st[p].error = "NotImplementedError"
                    \/ st[p].error = "WandbError" /\ fault[p] = "init_wandb")
            /\ (st[p].error = "NotImplementedError" =>
                    (st[p].wandb # None <=>
                        st[p].rank = 0 /\ "wandb" \in DOMAIN training_config(st[p])))

C2_Witness ==
    \E p \in procs :
        /\ UnsupportedType(st[p]) /\ st[p].error = "NotImplementedError"
        /\ st[p].wandb # None

\* C4: the TrainingCallback is constructed on rank 0 only: there the trainer
\* gets a list of exactly one callback built from run_name and the training
\* config, on any other rank it gets the empty list and no callback is built;
\* wandb is initialised only on rank 0 with train.wandb present.
C4_HookOnlyOnPrimary ==
    \A p \in procs :
        LET s == st[p] IN
        /\ (s.rank # 0 => s.callbacks_built = 0)
        /\ s.callbacks_built <= 1
        /\ (s.training_callbacks # None =>
               IF s.rank = 0
               THEN /\ s.callbacks_built = 1
                    /\ s.training_callbacks[1] =
                          <<[run_name |-> s.run_name[1],
                             training_config |-> yaml_safe_load(configDoc)["train"]]>>
               ELSE s.training_callbacks[1] = <<>>)
        /\ (s.trainer # None =>
               /\ s.trainer[1].callbacks = s.training_callbacks[1]
               /\ Len(s.trainer[1].callbacks) = (IF s.rank = 0 THEN 1 ELSE 0))
        /\ (s.wandb # None =>
               s.rank = 0 /\ "wandb" \in DOMAIN yaml_safe_load(configDoc)["train"])

C4_Witness ==
    \E p \in procs :
        /\ st[p].rank # 0 /\ st[p].trainer # None
        /\ st[p].trainer[1].callbacks = <<>>
        /\ "wandb" \in DOMAIN training_config(st[p]) /\ st[p].wandb = None

\* the config as the document at XFL_CONFIG states it
Loaded == yaml_safe_load(configDoc)

\* C5 as stated: for type "scene" the table read is the config's
\* dataset.csv_file with images resolved against the config's
\* dataset.image_dir, so the dataset has as many rows as that table and the
\* loader yields ceil(rows / batch_size) batches.
C5_SceneSourceFromConfig ==
    \A p \in procs :
        LET s == st[p]
            ds == Loaded["train"]["dataset"]
        IN  s.dataset # None /\ ds["type"] = "scene" =>
               /\ s.dataset[1].source = ds["csv_file"]
               /\ s.dataset[1].image_dir = ds["image_dir"]
               /\ s.dataset[1].len = csvFiles[ds["csv_file"]]
               /\ (s.train_loader # None =>
                      s.train_loader[1].batches =
                         CeilDiv(csvFiles[ds["csv_file"]], Loaded["train"]["batch_size"]))

\* C6: the trainer is built with checkpointing, progress bar and logger
\* disabled and accumulate_grad_batches from the config; max_steps and
\* max_epochs are the config's value or -1, gradient_clip_val the config's
\* value or 0.5, each key on its own.
C6_TrainerArguments ==
    \A p \in procs :
        st[p].trainer # None =>
            LET t == st[p].trainer[1]
                tc == Loaded["train"]
            IN  /\ t.enable_checkpointing = FALSE
                /\ t.enable_progress_bar = FALSE
                /\ t.logger = FALSE
                /\ t.accumulate_grad_batches = tc["accumulate_grad_batches"]
                /\ t.max_steps = (IF "max_steps" \in DOMAIN tc THEN tc["max_steps"] ELSE -1)
                /\ t.max_epochs = (IF "max_epochs" \in DOMAIN tc THEN tc["max_epochs"] ELSE -1)
                /\ t.gradient_clip_val =
                      (IF "gradient_clip_val" \in DOMAIN tc
                       THEN tc["gradient_clip_val"] ELSE <<1, 2>>)

C6_Witness ==
    \E p \in procs :
        /\ st[p].trainer # None
        /\ DOMAIN Loaded["train"] \cap {"max_steps", "max_epochs", "gradient_clip_val"}
              = {"max_steps"}
        /\ st[p].trainer[1].max_epochs = -1

\* C7: main() never changes the loaded config: at every point after
\* get_config() the config (and config["train"], which the trainer holds by
\* reference) is the mapping the document stated, and the config.yaml written
\* parses back to that mapping.
C7_ConfigNeverMutated ==
    \A p \in procs :
        LET s == st[p] IN
        /\ (s.config # None => s.config[1] = Loaded)
        /\ (s.trainer # None /\ s.trainer[1].training_config # None =>
               s.trainer[1].training_config[1] = Loaded["train"])
        /\ (s.written = 1 =>
               LET f == ConfigFile(save_path(s), s.run_name[1]) IN
               /\ f \in DOMAIN files
               /\ yaml_safe_load(files[f].content) = Loaded)

C7_Witness ==
    \E p \in procs :
        /\ st[p].pc = "done" /\ st[p].written = 1
        /\ "max_steps" \in DOMAIN Loaded["train"]

\* ---- the order of the steps of main()
\* position of a step in an order, 0 when the order does not name it
Pos(order, step) ==
    IF \E i \in 1..Len(order) : order[i] = step
    THEN CHOOSE i \in 1..Len(order) : order[i] = step
    ELSE 0

\* the steps of trace that order names occur in the order it gives, once each
InOrder(trace, order) ==
    \A i, j \in 1..Len(trace) :
        i < j /\ Pos(order, trace[i]) > 0 /\ Pos(order, trace[j]) > 0
            => Pos(order, trace[i]) < Pos(order, trace[j])

Occurs(trace, step) == \E i \in 1..Len(trace) : trace[i] = step

\* an abort is the last thing a run does, and a finished run called fit once
\* after every mandatory step (the save only on the primary process)
LinearRun(s) ==
    /\ \A i \in 1..Len(s.trace) : s.trace[i] = "abort" => i = Len(s.trace)
    /\ (s.pc = "aborted" <=> Occurs(s.trace, "abort"))
    /\ s.fit_calls <= 1
    /\ (s.fit_calls = 1 => s.pc \in {"done", "aborted"})
    /\ (s.pc = "done" =>
           /\ s.fit_calls = 1
           /\ \A step \in {"get_config", "get_rank", "dataset", "loader", "model",
                           "trainer", "fit"} : Occurs(s.trace, step)
           /\ (s.is_main_process =>
                  Occurs(s.trace, "makedirs") /\ Occurs(s.trace, "write_config")))

\* the order the claim gives: load config, pick rank, metrics backend, ...
ClaimedOrder == <<"get_config", "get_rank", "init_wandb", "dataset", "loader",
                  "model", "trainer", "makedirs", "write_config", "fit">>

\* the order with the first two steps exchanged
AmendedOrder == <<"get_rank", "get_config", "init_wandb", "dataset", "loader",
                  "model", "trainer", "makedirs", "write_config", "fit">>

\* C8 as stated: the steps run in the order load config, pick rank, init the
\* metrics backend, build dataset, loader, model wrapper and driver, persist
\* the config, call trainer.fit once; a failure aborts the run and nothing is
\* retried.
C8_Original ==
    \A p \in procs : InOrder(st[p].trace, ClaimedOrder) /\ LinearRun(st[p])

\* C8 amended: the same, except that the rank is picked before the config is
\* loaded: pick rank, load config, init the metrics backend, build dataset,
\* loader, model wrapper and driver, persist the config, call trainer.fit once.
C8_Amended ==
    \A p \in procs : InOrder(st[p].trace, AmendedOrder) /\ LinearRun(st[p])

C8_Witness ==
    \E p \in procs :
        /\ st[p].pc = "done" /\ st[p].is_main_process /\ st[p].wandb # None
        /\ Len(st[p].trace) = Len(Steps)

\* ---- several processes
InvalidRankEnvs == {None, Some(<<>>), Some(<<"1", "a">>)}

\* the integer a valid LOCAL_RANK of RankEnvs stands for
RankOf(x) == CASE x = Some(<<"0">>) -> 0
               [] x = Some(<<"1">>) -> 1
               [] x = Some(<<"-", "1">>) -> -1

DistinctIntegerRanks ==
    /\ \A p \in procs : environ[p].LOCAL_RANK \notin InvalidRankEnvs
    /\ \A p, q \in procs :
          p # q => RankOf(environ[p].LOCAL_RANK) # RankOf(environ[q].LOCAL_RANK)

OwnDir(s) == RunDir(save_path(s), s.run_name[1])
OwnFile(s) == ConfigFile(save_path(s), s.run_name[1])

Creators == {p \in procs : st[p].made > 0}

\* C3: with distinct integer LOCAL_RANKs only the rank-0 process creates the
\* run directory and config.yaml, at most once, and on it the file is
\* complete before trainer.fit is called; a process of another rank never
\* creates the directory nor writes the file.
C3_OnlyRankZeroSaves ==
    DistinctIntegerRanks =>
        /\ Cardinality(Creators) <= 1
        /\ Cardinality(dirs) <= 1
        /\ \A p \in procs :
              LET s == st[p] IN
              /\ s.made <= 1 /\ s.written <= 1
              /\ (RankOf(environ[p].LOCAL_RANK) # 0 =>
                     s.made = 0 /\ s.written = 0 /\ NoFileOf(p))
              /\ (RankOf(environ[p].LOCAL_RANK) = 0 /\ s.pc \in {"fit", "done"} =>
                     /\ s.made = 1 /\ s.written = 1
                     /\ OwnDir(s) \in dirs
                     /\ OwnFile(s) \in DOMAIN files
                     /\ files[OwnFile(s)] = [content |-> yaml_dump(Loaded), writer |-> p])

C3_Witness ==
    /\ DistinctIntegerRanks
    /\ \A p \in procs : st[p].pc = "done"
    /\ \E p \in procs : st[p].made = 1 /\ st[p].written = 1

\* what get_rank must return for each LOCAL_RANK of RankEnvs
ExpectedRank(x) == IF x \in InvalidRankEnvs THEN 0 ELSE RankOf(x)

\* C9: get_rank is the integer LOCAL_RANK states, and 0 when LOCAL_RANK is
\* unset, empty or not a number; so when no process has a valid LOCAL_RANK
\* every process is primary and each one that gets to the save step creates
\* an output directory and writes config.yaml into it.
C9_NoRankMeansPrimary ==
    /\ \A p \in procs :
          st[p].pc # "get_rank" =>
             /\ st[p].rank = ExpectedRank(environ[p].LOCAL_RANK)
             /\ st[p].is_main_process = (ExpectedRank(environ[p].LOCAL_RANK) = 0)
    /\ ((\A p \in procs : environ[p].LOCAL_RANK \in InvalidRankEnvs) =>
          \A p \in procs :
             LET s == st[p] IN
             /\ (s.pc # "get_rank" => s.is_main_process)
             /\ (s.pc \in {"write_config", "fit", "done"} =>
                    s.made = 1 /\ OwnDir(s) \in dirs)
             /\ (s.pc \in {"fit", "done"} =>
                    s.written = 1 /\ OwnFile(s) \in DOMAIN files)
             /\ (s.pc = "aborted" => s.error = "FileExistsError"))

C9_Witness ==
    /\ \A p \in procs : environ[p].LOCAL_RANK \in InvalidRankEnvs
    /\ Cardinality({p \in procs : st[p].written = 1}) > 1

\* two primary processes whose run directories have the same name
SameDir(p, q) ==
    /\ p # q
    /\ st[p].is_main_process /\ st[q].is_main_process
    /\ st[p].run_name # None /\ st[q].run_name # None
    /\ OwnDir(st[p]) = OwnDir(st[q])

\* C10: when the run directory exists at the save step os.makedirs fails,
\* the run aborts without calling trainer.fit and without creating or
\* writing anything; a file on disk is never overwritten or truncated; of
\* two primary processes with the same run directory at most one gets to
\* trainer.fit.
C10_State ==
    /\ \A p \in procs :
          st[p].error = "FileExistsError" =>
             /\ st[p].pc = "aborted" /\ st[p].fit_calls = 0
             /\ st[p].made = 0 /\ st[p].written = 0 /\ NoFileOf(p)
             /\ OwnDir(st[p]) \in dirs
    /\ \A p, q \in procs :
          SameDir(p, q) =>
             ~(st[p].pc \in {"fit", "done"} /\ st[q].pc \in {"fit", "done"})

C10_Files == \A f \in DOMAIN files : f \in DOMAIN files' /\ files'[f] = files[f]

C10_ExistingDirAborts == []C10_State /\ [][C10_Files]_vars

C10_Witness ==
    \E p, q \in procs :
        /\ SameDir(p, q)
        /\ st[p].error = "FileExistsError" /\ st[q].pc = "done"

====
